---- MODULE Spec2Model ----
(***************************************************************************)
(* fast-cohen: Cohen's d of the rows of two expression matrices.           *)
(*                                                                         *)
(* The module models src/src/main.rs:                                      *)
(*   - the statistics kernel (mean, var, cohen), generic over a binary     *)
(*     floating-point type F: Float, with every arithmetic operation       *)
(*     rounded to nearest, ties to even;                                    *)
(*   - process_csvs, the two-pass pipeline over two csv readers and one    *)
(*     csv writer.                                                         *)
(*                                                                         *)
(* Floating point.  The program instantiates F with f64 (53 significant    *)
(* bits).  TLC's integers are 32 bits wide, so the model keeps the format  *)
(* and its rounding rule and bounds the number of significant bits by Prec.*)
(* The exponent range is not bounded (no overflow, no underflow) and zero  *)
(* carries no sign.                                                        *)
(***************************************************************************)
EXTENDS Integers, Sequences, FiniteSets, TLC

\* ------------------------------------------------------------------ bounds

\* Significant bits of the floating-point format (53 for f64).
Prec == 4

\* Longest sample vector handed to the kernel in SpecStat.
MaxLen == 3

\* Longest control vector handed to cohen in SpecStat.
MaxControlLen == 2

\* Most data rows of an input matrix in Spec.
MaxRows == 2

\* ------------------------------------------------- floating-point values

\* A float is NaN, an infinity, or the finite value n * 2^e with n = 0 (and
\* e = 0) or n odd: the representation is canonical, so that = is ==.
NaN == [k |-> "nan"]

Inf(s) == [k |-> "inf", s |-> s]

Fin(n, e) == [k |-> "fin", n |-> n, e |-> e]

Zero == Fin(0, 0)

Abs(i) == IF i < 0 THEN -i ELSE i

Sgn(i) == IF i < 0 THEN -1 ELSE IF i > 0 THEN 1 ELSE 0

RECURSIVE Pow2(_)
Pow2(i) == IF i <= 0 THEN 1 ELSE 2 * Pow2(i - 1)

\* Number of bits of m >= 0 (0 for 0).
RECURSIVE BitLen(_)
BitLen(m) == IF m = 0 THEN 0 ELSE 1 + BitLen(m \div 2)

\* n * 2^e in canonical form.
RECURSIVE Normal(_, _)
Normal(n, e) ==
    IF n = 0 THEN Zero
    ELSE IF n % 2 = 0 THEN Normal(n \div 2, e + 1)
    ELSE Fin(n, e)

\* The float nearest to s * (m + f) * 2^e, where m >= 0 is an integer and
\* 0 <= f < 1 is a fraction of which only "sticky" (f # 0) is known: round to
\* nearest, ties to even.  With sticky set, m must hold at least Prec + 1 bits.
RoundNE(s, m, e, sticky) ==
    LET bits == BitLen(m) IN
    IF bits <= Prec THEN Normal(s * m, e)
    ELSE LET shift == bits - Prec
             q == m \div Pow2(shift)
             r == m % Pow2(shift)
             half == Pow2(shift - 1)
             up == \/ r > half
                   \/ r = half /\ sticky
                   \/ r = half /\ ~sticky /\ q % 2 = 1
         IN Normal(s * (IF up THEN q + 1 ELSE q), e + shift)

\* NumCast::from(count): the float nearest to the integer i.
FromInt(i) == RoundNE(Sgn(i), Abs(i), 0, FALSE)

Min(a, b) == IF a < b THEN a ELSE b

FNeg(x) ==
    CASE x.k = "nan" -> NaN
      [] x.k = "inf" -> Inf(-x.s)
      [] OTHER -> Fin(-x.n, x.e)

FAdd(x, y) ==
    CASE x.k = "nan" \/ y.k = "nan" -> NaN
      [] x.k = "inf" /\ y.k = "inf" -> IF x.s = y.s THEN x ELSE NaN
      [] x.k = "inf" -> x
      [] y.k = "inf" -> y
      [] OTHER ->
           LET e == Min(x.e, y.e)
               m == x.n * Pow2(x.e - e) + y.n * Pow2(y.e - e)
           IN RoundNE(Sgn(m), Abs(m), e, FALSE)

FSub(x, y) == FAdd(x, FNeg(y))

FMul(x, y) ==
    CASE x.k = "nan" \/ y.k = "nan" -> NaN
      [] x.k = "inf" -> IF y = Zero THEN NaN
                        ELSE Inf(x.s * (IF y.k = "inf" THEN y.s ELSE Sgn(y.n)))
      [] y.k = "inf" -> IF x = Zero THEN NaN ELSE Inf(y.s * Sgn(x.n))
      [] OTHER -> RoundNE(Sgn(x.n) * Sgn(y.n), Abs(x.n) * Abs(y.n), x.e + y.e, FALSE)

FDiv(x, y) ==
    CASE x.k = "nan" \/ y.k = "nan" -> NaN
      [] x.k = "inf" -> IF y.k = "inf" THEN NaN
                        ELSE Inf(x.s * (IF y.n < 0 THEN -1 ELSE 1))
      [] y.k = "inf" -> Zero
      [] y = Zero -> IF x = Zero THEN NaN ELSE Inf(Sgn(x.n))
      [] x = Zero -> Zero
      [] OTHER ->
           LET sh == Prec + 2 + BitLen(Abs(y.n))
               num == Abs(x.n) * Pow2(sh)
               q == num \div Abs(y.n)
               rem == num % Abs(y.n)
           IN RoundNE(Sgn(x.n) * Sgn(y.n), q, x.e - y.e - sh, rem # 0)

\* The largest r with r * r <= m, bit by bit from 2^b down.
RECURSIVE ISqrtFrom(_, _, _)
ISqrtFrom(m, r, b) ==
    IF b < 0 THEN r
    ELSE LET t == r + Pow2(b)
         IN ISqrtFrom(m, IF t * t <= m THEN t ELSE r, b - 1)

ISqrt(m) == ISqrtFrom(m, 0, BitLen(m) \div 2)

\* powf(0.5): the correctly rounded square root; NaN below zero.
FSqrt(x) ==
    CASE x.k = "nan" -> NaN
      [] x.k = "inf" -> Inf(1)
      [] x = Zero -> Zero
      [] x.n < 0 -> NaN
      [] OTHER ->
           LET odd == IF x.e % 2 = 0 THEN 0 ELSE 1
               need == 2 * (Prec + 2) - BitLen(x.n)
               k == IF need <= odd THEN odd
                    ELSE IF (need - odd) % 2 = 0 THEN need ELSE need + 1
               m == x.n * Pow2(k)
               r == ISqrt(m)
           IN RoundNE(1, r, (x.e - k) \div 2, r * r # m)

\* ------------------------------------------------------ statistics kernel

None == [k |-> "none"]

Some(v) == [k |-> "some", v |-> v]

\* The outcome of a panicking call.
Panic == [k |-> "panic"]

\* Iterator::sum::<F>(): a left fold of + from zero.
RECURSIVE SumF(_)
SumF(data) ==
    IF Len(data) = 0 THEN Zero
    ELSE FAdd(SumF(SubSeq(data, 1, Len(data) - 1)), data[Len(data)])

mean(data) ==
    LET count == Len(data)
        sum == SumF(data)
    IN IF count > 0 THEN Some(FDiv(sum, FromInt(count))) ELSE None

\* The squared deviations of data from data_mean, in order.
SqDiffs(data, data_mean) ==
    [i \in 1..Len(data) |->
        LET diff == FSub(data[i], data_mean) IN FMul(diff, diff)]

var(data) ==
    LET m == mean(data)
        count == Len(data)
    IN IF m = None THEN Panic
       ELSE FDiv(SumF(SqDiffs(data, m.v)), FromInt(count - 1))

\* A pooled standard deviation that weighs the two variances equally, whatever
\* the sizes of the groups.
pooled_stdev_unweighted(n_case, var_case, n_control, var_control) ==
    FSqrt(FDiv(FAdd(var_case, var_control), FromInt(2)))

\* The pooled standard deviation of two groups with these variances.
pooled_stdev(n_case, var_case, n_control, var_control) ==
    FSqrt(FDiv(FAdd(FMul(FSub(n_case, FromInt(1)), var_case),
                    FMul(FSub(n_control, FromInt(1)), var_control)),
               FSub(FAdd(n_case, n_control), FromInt(2))))

\* var(&case) is evaluated before var(&control); either may panic.
cohen(case, control) ==
    LET n_case == FromInt(Len(case))
        n_control == FromInt(Len(control))
        var_case == var(case)
        var_control == var(control)
        stdev == pooled_stdev(n_case, var_case, n_control, var_control)
    IN IF var_case = Panic \/ var_control = Panic THEN Panic
       ELSE IF stdev = Zero THEN Zero
       ELSE FDiv(FSub(mean(case).v, mean(control).v), stdev)

\* ------------------------------------------------------------ csv inputs

\* Row names of the input matrices.
Names == {"gene_1", "gene_2"}

\* The fields a data row may carry after its row name.
Samples == {<<>>, <<"1">>, <<"1", "3">>, <<"3", "5">>, <<"1", "x">>}

\* The numeric literals among the fields, with the integer each denotes; any
\* other field ("x", a column name) is no float.
Literal == [t \in {"1", "3", "5"} |-> CASE t = "1" -> 1 [] t = "3" -> 3 [] t = "5" -> 5]

\* str::parse::<f64>()
parse(x) == IF x \in DOMAIN Literal THEN Some(FromInt(Literal[x])) ELSE None

Rows == {<<nm>> \o fs : nm \in Names, fs \in Samples}

RECURSIVE SeqsUpTo(_, _)
SeqsUpTo(S, n) ==
    IF n = 0 THEN {<<>>}
    ELSE LET shorter == SeqsUpTo(S, n - 1)
         IN shorter \cup {Append(s, x) : s \in {t \in shorter : Len(t) = n - 1}, x \in S}

\* The header record: the row-name column and one column name per sample.
HeaderOf(width) == <<"row_names">> \o [i \in 1..(width - 1) |-> "sample"]

\* An input file: the header record, as wide as the first data row, then the
\* data rows.  A later row of another width is a record the reader rejects.
FileOf(rows) == <<HeaderOf(IF Len(rows) = 0 THEN 1 ELSE Len(rows[1]))>> \o rows

Files == {FileOf(rows) : rows \in SeqsUpTo(Rows, MaxRows)}

\* The data rows of a file.
DataRows(file) == SubSeq(file, 2, Len(file))

\* ------------------------------------------------------------ csv::Reader

\* A reader over a file (has_headers on, flexible off): the index of the next
\* record, whether seek has been called, whether the header has been read.
NewReader(file) == [file |-> file, pos |-> 1, seeked |-> FALSE, headers |-> FALSE]

Ok(rec) == [k |-> "ok", rec |-> rec]

Err == [k |-> "err"]

\* One record off the file: None at the end, Err for a record whose number of
\* fields is not that of the first record (UnequalLengths), else the record.
ReadImpl(rdr) ==
    IF rdr.pos > Len(rdr.file) THEN [item |-> None, rdr |-> rdr]
    ELSE [item |-> IF Len(rdr.file[rdr.pos]) = Len(rdr.file[1])
                   THEN Some(Ok(rdr.file[rdr.pos])) ELSE Some(Err),
          rdr |-> [rdr EXCEPT !.pos = @ + 1]]

\* records().next(): the first record is taken as the header and not
\* returned, unless the reader has been seeked.
ReadRecord(rdr) ==
    IF ~rdr.seeked /\ ~rdr.headers
    THEN LET first == ReadImpl(rdr)
         IN ReadImpl([first.rdr EXCEPT !.headers = TRUE])
    ELSE ReadImpl(rdr)

\* A seek that lands on the first data row instead of the header record.
SeekPastHeader(rdr, position) ==
    [rdr EXCEPT !.pos = position + 1, !.seeked = TRUE, !.headers = TRUE]

\* Reader::seek(position): back to the position, the header skip disabled.
Seek(rdr, position) == [rdr EXCEPT !.pos = position, !.seeked = TRUE, !.headers = TRUE]

\* records() collected to the end: every item the iterator yields, in order.
RECURSIVE Records(_)
Records(rdr) ==
    LET r == ReadRecord(rdr)
    IN IF r.item = None THEN <<>> ELSE <<r.item.v>> \o Records(r.rdr)

\* The reader once records() has run to the end.
RECURSIVE Drained(_)
Drained(rdr) ==
    LET r == ReadRecord(rdr)
    IN IF r.item = None THEN r.rdr ELSE Drained(r.rdr)

\* .map(|x| x.unwrap().get(0).unwrap().to_owned()).collect(): the first
\* field of every record (Ok), or Panic at a record that is an Err.
RowNames(rdr) ==
    LET recs == Records(rdr)
    IN IF \E i \in 1..Len(recs) : recs[i] = Err THEN Panic
       ELSE Ok([i \in 1..Len(recs) |-> recs[i].rec[1]])

\* ----------------------------------------------------------------- state

VARIABLES
    case_samples,            \* the reader over the case matrix
    control_samples,         \* the reader over the control matrix
    case_start_position,     \* the position of case_samples on entry
    control_start_position,  \* the position of control_samples on entry
    control_row_names,       \* the names collected from control_samples
    case_row_names,          \* the names collected from case_samples
    skipped,                 \* whether skip(1) has dropped its pair
    result,                  \* the statistics computed so far, in order
    writer,                  \* the records written to the sink, in order
    pc,                      \* where process_csvs is
    failure,                 \* how the run halted, once pc = "Failed"
    stat_pc,                 \* SpecStat: "input" before the call, "returned" after
    stat_op,                 \* SpecStat: the kernel function called
    stat_case,               \* SpecStat: the first argument
    stat_control,            \* SpecStat: the second argument (cohen)
    stat_out                 \* SpecStat: what the call returned

pipe_vars == <<case_samples, control_samples, case_start_position,
               control_start_position, control_row_names, case_row_names,
               skipped, result, writer, pc, failure>>

stat_vars == <<stat_pc, stat_op, stat_case, stat_control, stat_out>>

vars == <<pipe_vars, stat_vars>>

\* How a run halted: the kind of the failure and the raw field it names.
Failure(kind, value) == [k |-> "failed", kind |-> kind, value |-> value]

NoFailure == Failure("none", "")

\* ---------------------------------------------------------- process_csvs

\* The position both readers report before anything is read.
StartPosition == 1

\* The two row-name passes: control first, then case.
ExtractNames ==
    /\ pc = "Start"
    /\ RowNames(control_samples).k = "ok"
    /\ RowNames(case_samples).k = "ok"
    /\ control_start_position' = control_samples.pos
    /\ case_start_position' = case_samples.pos
    /\ control_row_names' = RowNames(control_samples).rec
    /\ case_row_names' = RowNames(case_samples).rec
    /\ control_samples' = Drained(control_samples)
    /\ case_samples' = Drained(case_samples)
    /\ pc' = "NamesExtracted"
    /\ UNCHANGED <<skipped, result, writer, failure, stat_vars>>

\* x.unwrap() on a record the reader rejected.
ExtractNamesPanic ==
    /\ pc = "Start"
    /\ ~(RowNames(control_samples).k = "ok" /\ RowNames(case_samples).k = "ok")
    /\ control_start_position' = control_samples.pos
    /\ case_start_position' = case_samples.pos
    /\ control_row_names' = IF RowNames(control_samples) = Panic THEN <<>>
                            ELSE RowNames(control_samples).rec
    /\ pc' = "Failed"
    /\ failure' = Failure("RecordError", "")
    /\ UNCHANGED <<case_samples, control_samples, case_row_names, skipped,
                   result, writer, stat_vars>>

Rewind ==
    /\ pc = "NamesExtracted"
    /\ case_samples' = Seek(case_samples, case_start_position)
    /\ control_samples' = Seek(control_samples, control_start_position)
    /\ pc' = "Rewound"
    /\ UNCHANGED <<case_start_position, control_start_position, control_row_names,
                   case_row_names, skipped, result, writer, failure, stat_vars>>

\* A comparison of the two sets of names, blind to their order.
row_names_match_as_sets(control_names, case_names) ==
    {control_names[i] : i \in 1..Len(control_names)}
        = {case_names[i] : i \in 1..Len(case_names)}

\* A comparison that is content with one matching position (any for all).
row_names_match_any(control_names, case_names) ==
    \/ Min(Len(control_names), Len(case_names)) = 0
    \/ \E i \in 1..Min(Len(control_names), Len(case_names)) :
          control_names[i] = case_names[i]

\* control_row_names.zip(case_row_names).all(|(x, y)| x == y)
row_names_match(control_names, case_names) ==
    \A i \in 1..Min(Len(control_names), Len(case_names)) :
        control_names[i] = case_names[i]

AlignmentMismatch ==
    /\ pc = "Rewound"
    /\ ~row_names_match(control_row_names, case_row_names)
    /\ pc' = "Failed"
    /\ failure' = Failure("AlignmentMismatch", "")
    /\ UNCHANGED <<case_samples, control_samples, case_start_position,
                   control_start_position, control_row_names, case_row_names,
                   skipped, result, writer, stat_vars>>

AlignmentOk ==
    /\ pc = "Rewound"
    /\ row_names_match(control_row_names, case_row_names)
    /\ pc' = "Computing"
    /\ UNCHANGED <<case_samples, control_samples, case_start_position,
                   control_start_position, control_row_names, case_row_names,
                   skipped, result, writer, failure, stat_vars>>

\* Zip::next() of case_samples.records().zip(control_samples.records()): the
\* case record is pulled first, the control record only if there is one.
ZipNext(case_rdr, control_rdr) ==
    LET a == ReadRecord(case_rdr)
        b == ReadRecord(control_rdr)
    IN IF a.item = None
       THEN [item |-> None, case_rdr |-> a.rdr, control_rdr |-> control_rdr]
       ELSE IF b.item = None
       THEN [item |-> None, case_rdr |-> a.rdr, control_rdr |-> b.rdr]
       ELSE [item |-> Some(<<a.item.v, b.item.v>>), case_rdr |-> a.rdr, control_rdr |-> b.rdr]

\* skip(1): the first pair of the value pass is dropped unread.
SkipHeader ==
    /\ pc = "Computing"
    /\ ~skipped
    /\ LET z == ZipNext(case_samples, control_samples)
       IN /\ case_samples' = z.case_rdr
          /\ control_samples' = z.control_rdr
    /\ skipped' = TRUE
    /\ UNCHANGED <<case_start_position, control_start_position, control_row_names,
                   case_row_names, result, writer, pc, failure, stat_vars>>

\* record.into_iter().skip(1).map(|x| x.parse()...).collect(): the floats of
\* the fields after the first, or the failure of the first field that is none.
RECURSIVE ParseFrom(_, _)
ParseFrom(rec, i) ==
    IF i > Len(rec) THEN Ok(<<>>)
    ELSE IF parse(rec[i]) = None THEN Failure("NonNumericField", rec[i])
    ELSE LET rest == ParseFrom(rec, i + 1)
         IN IF rest.k = "ok" THEN Ok(<<parse(rec[i]).v>> \o rest.rec) ELSE rest

Values(item) ==
    IF item = Err THEN Failure("RecordError", "") ELSE ParseFrom(item.rec, 2)

\* The closure of the value pass on one pair: the statistic, or the failure
\* that halts the run (case is read and parsed before control).
RowStatistic(pair) ==
    LET case_values == Values(pair[1])
        control_values == Values(pair[2])
    IN IF case_values.k # "ok" THEN case_values
       ELSE IF control_values.k # "ok" THEN control_values
       ELSE LET d == cohen(case_values.rec, control_values.rec)
            IN IF d = Panic THEN Failure("NoneUnwrap", "") ELSE Ok(d)

\* format!("{}", value): the shortest decimal text that reads back as value,
\* "NaN" for NaN; one text per value, kept as the value it denotes.
Format(value) == [display |-> value]

\* A value pass that writes each row as soon as its statistic is computed.
ComputeRowStreaming ==
    /\ pc = "Computing"
    /\ skipped
    /\ LET z == ZipNext(case_samples, control_samples)
       IN /\ z.item # None
          /\ RowStatistic(z.item.v).k = "ok"
          /\ case_samples' = z.case_rdr
          /\ control_samples' = z.control_rdr
          /\ result' = Append(result, RowStatistic(z.item.v).rec)
          /\ writer' = Append(IF writer = <<>> THEN <<(<<"row_names", "cohen_d">>)>>
                                               ELSE writer,
                              <<IF Len(result) < Len(control_row_names)
                                THEN control_row_names[Len(result) + 1] ELSE "",
                                Format(RowStatistic(z.item.v).rec)>>)
    /\ UNCHANGED <<case_start_position, control_start_position, control_row_names,
                   case_row_names, skipped, pc, failure, stat_vars>>

ComputeRow ==
    /\ pc = "Computing"
    /\ skipped
    /\ LET z == ZipNext(case_samples, control_samples)
       IN /\ z.item # None
          /\ RowStatistic(z.item.v).k = "ok"
          /\ case_samples' = z.case_rdr
          /\ control_samples' = z.control_rdr
          /\ result' = Append(result, RowStatistic(z.item.v).rec)
    /\ UNCHANGED <<case_start_position, control_start_position, control_row_names,
                   case_row_names, skipped, writer, pc, failure, stat_vars>>

ComputeRowPanic ==
    /\ pc = "Computing"
    /\ skipped
    /\ LET z == ZipNext(case_samples, control_samples)
       IN /\ z.item # None
          /\ RowStatistic(z.item.v).k # "ok"
          /\ case_samples' = z.case_rdr
          /\ control_samples' = z.control_rdr
          /\ failure' = RowStatistic(z.item.v)
    /\ pc' = "Failed"
    /\ UNCHANGED <<case_start_position, control_start_position, control_row_names,
                   case_row_names, skipped, result, writer, stat_vars>>

\* The value pass ends when either reader does: collect() returns.
ComputeEnd ==
    /\ pc = "Computing"
    /\ skipped
    /\ LET z == ZipNext(case_samples, control_samples)
       IN /\ z.item = None
          /\ case_samples' = z.case_rdr
          /\ control_samples' = z.control_rdr
    /\ pc' = "WriteHeader"
    /\ UNCHANGED <<case_start_position, control_start_position, control_row_names,
                   case_row_names, skipped, result, writer, failure, stat_vars>>

WriteHeader ==
    /\ pc = "WriteHeader"
    /\ writer' = Append(writer, <<"row_names", "cohen_d">>)
    /\ pc' = "WriteRows"
    /\ UNCHANGED <<case_samples, control_samples, case_start_position,
                   control_start_position, control_row_names, case_row_names,
                   skipped, result, failure, stat_vars>>

\* One turn of the loop over control_row_names.zip(result).
WriteRow ==
    /\ pc = "WriteRows"
    /\ LET i == Len(writer)
       IN /\ i <= Min(Len(control_row_names), Len(result))
          /\ writer' = Append(writer, <<control_row_names[i], Format(result[i])>>)
    /\ UNCHANGED <<case_samples, control_samples, case_start_position,
                   control_start_position, control_row_names, case_row_names,
                   skipped, result, pc, failure, stat_vars>>

Flush ==
    /\ pc = "WriteRows"
    /\ Len(writer) > Min(Len(control_row_names), Len(result))
    /\ pc' = "Done"
    /\ UNCHANGED <<case_samples, control_samples, case_start_position,
                   control_start_position, control_row_names, case_row_names,
                   skipped, result, writer, failure, stat_vars>>

\* write_record(..).unwrap() or flush().unwrap() on a sink that fails.
WriterError ==
    /\ pc \in {"WriteHeader", "WriteRows"}
    /\ pc' = "Failed"
    /\ failure' = Failure("WriteError", "")
    /\ UNCHANGED <<case_samples, control_samples, case_start_position,
                   control_start_position, control_row_names, case_row_names,
                   skipped, result, writer, stat_vars>>

StatIdle ==
    /\ stat_pc = "idle"
    /\ stat_op = "none"
    /\ stat_case = <<>>
    /\ stat_control = <<>>
    /\ stat_out = None

Init ==
    /\ case_samples \in {NewReader(f) : f \in Files}
    /\ control_samples \in {NewReader(f) : f \in Files}
    /\ case_start_position = StartPosition
    /\ control_start_position = StartPosition
    /\ control_row_names = <<>>
    /\ case_row_names = <<>>
    /\ skipped = FALSE
    /\ result = <<>>
    /\ writer = <<>>
    /\ pc = "Start"
    /\ failure = NoFailure
    /\ StatIdle

Next ==
    \/ ExtractNames
    \/ ExtractNamesPanic
    \/ Rewind
    \/ AlignmentMismatch
    \/ AlignmentOk
    \/ SkipHeader
    \/ ComputeRow
    \/ ComputeRowPanic
    \/ ComputeEnd
    \/ WriteHeader
    \/ WriteRow
    \/ Flush
    \/ WriterError

Spec == Init /\ [][Next]_vars

\* ------------------------------------------------- the kernel, on its own

\* The sample values handed to the kernel.
StatValues == {1, 2, 3, 14}

StatVectors(n) == SeqsUpTo({FromInt(v) : v \in StatValues}, n)

CallMean ==
    /\ stat_pc = "input"
    /\ stat_op' = "mean"
    /\ stat_out' = mean(stat_case)
    /\ stat_pc' = "returned"
    /\ UNCHANGED <<stat_case, stat_control, pipe_vars>>

CallVar ==
    /\ stat_pc = "input"
    /\ stat_op' = "var"
    /\ stat_out' = var(stat_case)
    /\ stat_pc' = "returned"
    /\ UNCHANGED <<stat_case, stat_control, pipe_vars>>

CallCohen ==
    /\ stat_pc = "input"
    /\ \E control \in StatVectors(MaxControlLen) :
          /\ stat_control' = control
          /\ stat_out' = cohen(stat_case, control)
    /\ stat_op' = "cohen"
    /\ stat_pc' = "returned"
    /\ UNCHANGED <<stat_case, pipe_vars>>

StatInit ==
    /\ stat_pc = "input"
    /\ stat_op = "none"
    /\ stat_case \in StatVectors(MaxLen)
    /\ stat_control = <<>>
    /\ stat_out = None
    /\ case_samples = NewReader(FileOf(<<>>))
    /\ control_samples = NewReader(FileOf(<<>>))
    /\ case_start_position = StartPosition
    /\ control_start_position = StartPosition
    /\ control_row_names = <<>>
    /\ case_row_names = <<>>
    /\ skipped = FALSE
    /\ result = <<>>
    /\ writer = <<>>
    /\ pc = "Start"
    /\ failure = NoFailure

StatNext == CallMean \/ CallVar \/ CallCohen

SpecStat == StatInit /\ [][StatNext]_vars

\* ------------------------------------------------------------- properties

\* The inputs as given, apart from what the readers make of them.
CaseRows == DataRows(case_samples.file)

ControlRows == DataRows(control_samples.file)

NameSeq(rows) == [i \in 1..Len(rows) |-> rows[i][1]]

\* Every record of the file is as wide as its header.
WellFormed(file) == \A i \in 1..Len(file) : Len(file[i]) = Len(file[1])

\* The sample vector of a data row all of whose fields are numeric literals.
SampleVector(row) == [j \in 1..(Len(row) - 1) |-> FromInt(Literal[row[j + 1]])]

HasBadField(rows) ==
    \E i \in 1..Len(rows) : \E j \in 2..Len(rows[i]) : rows[i][j] \notin DOMAIN Literal

\* The alignment check has run and let the run go on.
Passed ==
    \/ pc \in {"Computing", "WriteHeader", "WriteRows", "Done"}
    \/ pc = "Failed" /\ failure.kind \in {"NonNumericField", "NoneUnwrap", "WriteError"}

\* The alignment check has run and stopped the run.
Rejected == pc = "Failed" /\ failure.kind = "AlignmentMismatch"

\* The names differ at a position both sequences have.
DifferSomewhere(A, B) == \E i \in 1..Min(Len(A), Len(B)) : A[i] # B[i]

C2_RowCountMismatchRejected ==
    Len(ControlRows) # Len(CaseRows) => (~Passed /\ result = <<>>)

\* C3: when the names differ at some position, the run halts at the alignment
\* check: it never goes on to the value pass, no statistic is computed and
\* nothing is written.
C3_MismatchHalts ==
    (/\ WellFormed(case_samples.file)
     /\ WellFormed(control_samples.file)
     /\ DifferSomewhere(NameSeq(ControlRows), NameSeq(CaseRows))) =>
        /\ pc \in {"Start", "NamesExtracted", "Rewound", "Failed"}
        /\ pc = "Failed" => Rejected
        /\ pc = "Rewound" => (ENABLED AlignmentMismatch /\ ~ENABLED AlignmentOk)
        /\ result = <<>>
        /\ writer = <<>>

\* C3 witness: a run halted by a mismatch in the second of two names.
C3_Witness ==
    /\ Rejected
    /\ Len(ControlRows) = 2 /\ Len(CaseRows) = 2
    /\ ControlRows[1][1] = CaseRows[1][1]
    /\ ControlRows[2][1] # CaseRows[2][1]
    /\ result = <<>> /\ writer = <<>>

\* C4: a run that reaches Done on aligned inputs of N data rows each has written
\* the header and then N rows, row i carrying the name of data row i and the
\* Cohen's d of case row i and control row i.
C4_OutputRows ==
    (pc = "Done" /\ NameSeq(ControlRows) = NameSeq(CaseRows)) =>
        writer = <<(<<"row_names", "cohen_d">>)>> \o
                 [i \in 1..Len(CaseRows) |->
                    <<CaseRows[i][1],
                      Format(cohen(SampleVector(CaseRows[i]),
                                   SampleVector(ControlRows[i])))>>]

\* C4 witness: a finished run over two rows of different names and statistics.
C4_Witness ==
    /\ pc = "Done"
    /\ NameSeq(ControlRows) = NameSeq(CaseRows)
    /\ Len(CaseRows) = 2
    /\ Len(writer) = 3
    /\ writer[2][1] # writer[3][1]
    /\ writer[2][2] # writer[3][2]

\* C5 (as claimed): a run over inputs with a non-numeric field in any data row
\* of either matrix never reaches Done.
C5_BadFieldHalts ==
    (HasBadField(CaseRows) \/ HasBadField(ControlRows)) => pc # "Done"

\* C10: nothing is written before the alignment check has passed and the
\* statistic of every paired row is computed; a run halted by its inputs has
\* written nothing at all.
C10_AllOrNothing ==
    /\ writer # <<>> =>
          /\ Passed
          /\ pc \in {"WriteRows", "Done", "Failed"}
          /\ Len(result) = Min(Len(CaseRows), Len(ControlRows))
    /\ (pc = "Failed" /\ failure.kind # "WriteError") => writer = <<>>

\* C10 witness: a run halted by a non-numeric field in its second row, after
\* the statistic of the first row was computed, with nothing written.
C10_Witness ==
    /\ pc = "Failed"
    /\ failure.kind = "NonNumericField"
    /\ failure.value = "x"
    /\ Len(result) = 1
    /\ writer = <<>>

\* The values of a vector are all the same.
AllEqual(data) == \A i, j \in 1..Len(data) : data[i] = data[j]

FloatSign(x) == IF x.k = "fin" THEN Sgn(x.n) ELSE IF x.k = "inf" THEN x.s ELSE 0

\* C6 (as claimed): var fails on fewer than 2 values, and cohen fails when
\* either group has fewer than 2.
C6_InsufficientSamplesFail ==
    /\ (stat_pc = "returned" /\ stat_op = "var" /\ Len(stat_case) < 2)
          => stat_out = Panic
    /\ (stat_pc = "returned" /\ stat_op = "cohen"
          /\ (Len(stat_case) < 2 \/ Len(stat_control) < 2))
          => stat_out = Panic

\* C7 (as claimed): for groups of at least 2 values each, all equal within case
\* and all equal within control, cohen returns exactly 0.
C7_ZeroSpreadGivesZero ==
    (/\ stat_pc = "returned" /\ stat_op = "cohen"
     /\ Len(stat_case) >= 2 /\ Len(stat_control) >= 2
     /\ AllEqual(stat_case) /\ AllEqual(stat_control)) =>
        stat_out = Zero

\* C8: for groups of at least 2 values each with a non-zero pooled standard
\* deviation, cohen returns the difference of the means, case minus control,
\* over the square root of the pooled variance; the result has the sign of
\* that difference, and exchanging the groups negates it.
C8_CohenFormula ==
    LET n_case == Len(stat_case)
        n_control == Len(stat_control)
        pooled == FDiv(FAdd(FMul(FromInt(n_case - 1), var(stat_case)),
                            FMul(FromInt(n_control - 1), var(stat_control))),
                       FromInt(n_case + n_control - 2))
        difference == FSub(mean(stat_case).v, mean(stat_control).v)
    IN (/\ stat_pc = "returned" /\ stat_op = "cohen"
        /\ n_case >= 2 /\ n_control >= 2
        /\ FSqrt(pooled) # Zero) =>
           /\ stat_out = FDiv(difference, FSqrt(pooled))
           /\ FloatSign(stat_out) = FloatSign(difference)
           /\ cohen(stat_control, stat_case) = FNeg(stat_out)

\* C8 witness: a negative d from groups of different sizes and spreads.
C8_Witness ==
    /\ stat_pc = "returned" /\ stat_op = "cohen"
    /\ Len(stat_case) = 3 /\ Len(stat_control) = 2
    /\ ~AllEqual(stat_case) /\ ~AllEqual(stat_control)
    /\ stat_out.k = "fin" /\ stat_out.n < 0

\* C9 (as claimed): for n >= 2 values var is the sum of the squared deviations
\* from the mean over n - 1; it is never negative and is 0 iff all values are
\* equal.
C9_SampleVariance ==
    (stat_pc = "returned" /\ stat_op = "var" /\ Len(stat_case) >= 2) =>
        /\ stat_out = FDiv(SumF([i \in 1..Len(stat_case) |->
                                   FMul(FSub(stat_case[i], mean(stat_case).v),
                                        FSub(stat_case[i], mean(stat_case).v))]),
                           FromInt(Len(stat_case) - 1))
        /\ FloatSign(stat_out) >= 0
        /\ stat_out = Zero <=> AllEqual(stat_case)

====
